---------------------------- MODULE Spec2Model ----------------------------
(***************************************************************************)
(* Model of the Snowflake ACCOUNT_USAGE MCP server: the read-only query    *)
(* gate of tools/generic.py (is_read_only_query, add_limit_if_missing,     *)
(* execute_account_usage_query), the part of utils/snowflake_connection.py *)
(* it executes through, the anomaly classification query of                *)
(* tools/security.py (detect_unusual_access_patterns), the query builder   *)
(* of tools/generic.py (build_query_from_description) and the shared       *)
(* connection object of utils/snowflake_connection.py, called in sequence  *)
(* and by overlapping tool invocations.                                    *)
(*                                                                         *)
(* Query texts are sequences of one-character strings, so that the regex   *)
(* substitution, upper(), strip(), rstrip(), `in` and startswith() of the  *)
(* source are computed character by character.                             *)
(***************************************************************************)
EXTENDS Integers, Sequences, FiniteSets, Bags, TLC

VARIABLES
    query,        \* execute_account_usage_query: argument `query`
    limit,        \* execute_account_usage_query: argument `limit`
    envTimeout,   \* os.environ['QUERY_TIMEOUT_SECONDS'], or Unset
    pc,           \* "request" before the handler runs, "done" after it returned
    gateOk,       \* what is_read_only_query returned for this request
    sentQuery,    \* local `query` after add_limit_if_missing (line 97)
    timeout,      \* local `timeout` (line 100)
    calls,        \* cursor.execute calls made on the warehouse, in order
    connection,   \* snowflake_conn.connection as the handlers leave it: None or open
    result,       \* the string the handler returned
    served,       \* number of requests the handler has returned from
    refusals,     \* history: <<return taken in the gate, result>> of each refusal
    raised,       \* history: what snowflake_conn.execute_query raised in each handler
    errorText,    \* the {str(e)} inside the text each handler returned
    accessHistory, \* rows of SNOWFLAKE.ACCOUNT_USAGE.ACCESS_HISTORY
    dpc,          \* "idle" before detect_unusual_access_patterns runs, "done" after
    days_back,    \* detect_unusual_access_patterns: argument `days_back`
    sensitivity_level, \* detect_unusual_access_patterns: argument `sensitivity_level`
    df,           \* the rows the anomaly query returned, in order
    report,       \* which text detect_unusual_access_patterns returned
    high_risk_users, \* detect_unusual_access_patterns: local `high_risk_users`
    environ,      \* os.environ: the SNOWFLAKE_* variables
    dynamic,      \* snowflake_conn.dynamic_account, _user, _warehouse, _role
    connectionObject, \* which connection snowflake_conn.connection refers to
    opened,       \* the connections snowflake.connector.connect has returned
    ipc,          \* position of each tool invocation inside execute_query
    conn,         \* execute_query: local `conn` of each tool invocation
    last,         \* history: the most recent method call and how it ended
    ranOn,        \* history: the connection the most recent statement ran on
    lastSet,      \* history: how set_account_parameters last ended, and the
                  \* number of connections there were when it was called
    description,  \* build_query_from_description: argument `description`
    suggestions,  \* the queries in the text build_query_from_description returned
    hpc           \* "idle" before help_build_query runs, "done" after it, "passed"
                  \* once the client has passed one of the suggestions on

gateVars == <<query, limit, envTimeout, pc, gateOk, sentQuery, timeout,
              calls, connection, result, served, refusals, raised, errorText>>

detectVars == <<accessHistory, dpc, days_back, sensitivity_level, df, report,
                high_risk_users>>

connVars == <<environ, dynamic, connectionObject, opened, ipc, conn, last,
              ranOn, lastSet>>

helpVars == <<description, suggestions, hpc>>

vars == <<gateVars, detectVars, connVars, helpVars>>

----------------------------------------------------------------------------
(* Bounds *)

\* A request's query text is made of at most MaxChunks vocabulary chunks.
MaxChunks == 3

\* A session (SpecSession) is at most MaxRequests requests, one after another,
\* each of at most MaxSessionChunks chunks.
MaxRequests == 2
MaxSessionChunks == 1

\* The access history holds at most MaxRoutine routine rows of alice (one
\* query an hour, on the days before today) and at most MaxQueries other
\* queries.
MaxRoutine == 10
MaxQueries == 2

\* In the histories of whole buckets (SpecBuckets) the busiest bucket has
\* MaxBurst queries.
MaxBurst == 20

----------------------------------------------------------------------------
(* Text primitives (Python str and re semantics, ASCII) *)

Chars(s) == [i \in 1..Len(s) |-> SubSeq(s, i, i)]

LowerLetters == Chars("abcdefghijklmnopqrstuvwxyz")
UpperLetters == Chars("ABCDEFGHIJKLMNOPQRSTUVWXYZ")
Digits == Chars("0123456789")
Whitespace == {" ", "\n", "\t"}

\* str.upper() on one character
UpperTable ==
    [c \in {LowerLetters[i] : i \in 1..26} |->
        UpperLetters[CHOOSE i \in 1..26 : LowerLetters[i] = c]]

UpperChar(c) == IF c \in DOMAIN UpperTable THEN UpperTable[c] ELSE c

\* str.upper()
Upper(s) == [i \in 1..Len(s) |-> UpperChar(s[i])]

\* `k in s`
Contains(s, k) ==
    \E i \in 1..(Len(s) - Len(k) + 1) : SubSeq(s, i, i + Len(k) - 1) = k

\* s.startswith(k)
StartsWith(s, k) == Len(s) >= Len(k) /\ SubSeq(s, 1, Len(k)) = k

\* s.endswith(k)
EndsWith(s, k) ==
    Len(s) >= Len(k) /\ SubSeq(s, Len(s) - Len(k) + 1, Len(s)) = k

\* s.rstrip(chars): drop the longest suffix made of characters of cs
RECURSIVE RStrip(_, _)
RStrip(s, cs) ==
    IF s # <<>> /\ s[Len(s)] \in cs
    THEN RStrip(SubSeq(s, 1, Len(s) - 1), cs)
    ELSE s

\* s.lstrip(chars)
RECURSIVE LStrip(_, _)
LStrip(s, cs) ==
    IF s # <<>> /\ s[1] \in cs THEN LStrip(Tail(s), cs) ELSE s

\* s.strip()
Strip(s) == LStrip(RStrip(s, Whitespace), Whitespace)

\* re.sub(r'--.*', '', s): every leftmost "--" is removed together with the
\* rest of its line; `.` does not match the newline, which stays.
Least(places) == CHOOSE i \in places : \A j \in places : i <= j

SkipLine(s) ==
    LET ends == {j \in 1..Len(s) : s[j] = "\n"}
    IN  IF ends = {} THEN <<>> ELSE SubSeq(s, Least(ends), Len(s))

RECURSIVE StripComments(_)
StripComments(s) ==
    LET starts == {i \in 1..(Len(s) - 1) : s[i] = "-" /\ s[i + 1] = "-"}
    IN  IF starts = {} THEN s
        ELSE SubSeq(s, 1, Least(starts) - 1)
                 \o StripComments(SkipLine(SubSeq(s, Least(starts), Len(s))))

\* f"{n}" for an int n
RECURSIVE NatToText(_)
NatToText(n) ==
    IF n < 10 THEN <<Digits[n + 1]>>
    ELSE NatToText(n \div 10) \o <<Digits[(n % 10) + 1]>>

IntToText(n) == IF n < 0 THEN <<"-">> \o NatToText(-n) ELSE NatToText(n)


----------------------------------------------------------------------------
(* Query safety gate: tools/generic.py *)

\* dangerous_keywords, in the order of the list
DangerousKeywords ==
    << Chars("INSERT"), Chars("UPDATE"), Chars("DELETE"), Chars("DROP"),
       Chars("CREATE"), Chars("ALTER"), Chars("TRUNCATE"), Chars("MERGE") >>

KeywordSet == {DangerousKeywords[i] : i \in DOMAIN DangerousKeywords}

\* query_upper = re.sub(r'--.*', '', query).upper().strip()
Normalize(q) == Strip(Upper(StripComments(q)))

\* Mutants of is_read_only_query: the keyword test without upper(); the
\* function without its SELECT/WITH test.
is_read_only_query_case_sensitive(q) ==
    LET query_text == Strip(StripComments(q))
    IN  /\ ~ \E k \in KeywordSet : Contains(query_text, k)
        /\ \/ StartsWith(Upper(query_text), Chars("SELECT"))
           \/ StartsWith(Upper(query_text), Chars("WITH"))

is_read_only_query_no_prefix_test(q) ==
    ~ \E k \in KeywordSet : Contains(Normalize(q), k)

is_read_only_query(q) ==
    LET query_upper == Normalize(q)
    IN  IF \E k \in KeywordSet : Contains(query_upper, k)
        THEN FALSE
        ELSE IF ~(StartsWith(query_upper, Chars("SELECT"))
                  \/ StartsWith(query_upper, Chars("WITH")))
        THEN FALSE
        ELSE TRUE

\* Which return statement of is_read_only_query is taken: the one inside the
\* keyword loop, the one of the SELECT/WITH test, or the final one.
ReturnTaken(q) ==
    LET query_upper == Normalize(q)
    IN  IF \E k \in KeywordSet : Contains(query_upper, k)
        THEN "keyword"
        ELSE IF ~(StartsWith(query_upper, Chars("SELECT"))
                  \/ StartsWith(query_upper, Chars("WITH")))
        THEN "prefix"
        ELSE "accept"

\* Mutant of add_limit_if_missing: the clause is appended unconditionally.
add_limit_always(q, n) ==
    RStrip(RStrip(q, {";"}), Whitespace) \o Chars(" LIMIT ") \o IntToText(n)

add_limit_if_missing(q, n) ==
    LET query_upper == Upper(q)
    IN  IF ~Contains(query_upper, Chars("LIMIT"))
        THEN RStrip(RStrip(q, {";"}), Whitespace)
                 \o Chars(" LIMIT ") \o IntToText(n)
        ELSE q

\* int(s) for the text of an environment variable: digits only parse.
DigitSet == {Digits[d] : d \in 1..10}

IsIntText(s) == s # <<>> /\ \A i \in 1..Len(s) : s[i] \in DigitSet

RECURSIVE TextToNat(_)
TextToNat(s) ==
    IF s = <<>> THEN 0
    ELSE TextToNat(SubSeq(s, 1, Len(s) - 1)) * 10
             + (CHOOSE d \in 0..9 : Digits[d + 1] = s[Len(s)])

\* limit: int = 1000
DefaultLimit == 1000

\* os.getenv('QUERY_TIMEOUT_SECONDS', '300')
DefaultTimeout == 300

\* An absent text (not a sequence of characters), an absent object, and an
\* absent number (numbers that may be absent are sets of at most one).
Unset == <<"unset">>
None == "None"
NoTimeout == {}

\* int(os.getenv('QUERY_TIMEOUT_SECONDS', '300')); raises on text that is no int
GetenvTimeout(env) == IF env = Unset THEN NatToText(DefaultTimeout) ELSE env

\* The strings execute_account_usage_query returns (their fixed beginnings).
RefusalMessage ==
    "Error: Only SELECT queries are allowed for safety. Detected non-read operation."
QueryErrorMessage == "Query Error: "
NoDataMessage == "## Query Results: No data returned."
ResultsMessage == "## Query Results"

\* The two handlers, and the exceptions they can meet: the connector's, the
\* warehouse's, and int()'s.
Handlers == {"execute_account_usage_query", "detect_unusual_access_patterns"}
NoError == ""
ConnectError == "250001: Could not connect to Snowflake backend"
ExecuteError == "002003: SQL compilation error"
ValueError == "invalid literal for int() with base 10"

\* Mutant of str(e): a fixed text.
ErrorText_fixed(e) == "the query failed"

\* str(e)
ErrorText(e) == e

\* SnowflakeConnection.execute_query(query): the statement handed to
\* cursor.execute; execute_query takes no timeout and passes none on.
CursorExecute(q) == [sql |-> q, timeout |-> NoTimeout]

----------------------------------------------------------------------------
(* Query builder: tools/generic.py, build_query_from_description *)

\* str.lower() on one character
LowerTable ==
    [c \in {UpperLetters[i] : i \in 1..26} |->
        LowerLetters[CHOOSE i \in 1..26 : UpperLetters[i] = c]]

LowerChar(c) == IF c \in DOMAIN LowerTable THEN LowerTable[c] ELSE c

\* str.lower()
Lower(s) == [i \in 1..Len(s) |-> LowerChar(s[i])]

\* User Authentication Analysis
AuthenticationTemplate ==
    Chars("SELECT \n    USER_NAME,\n    FIRST_AUTHENTICATION_FACTOR,\n ") \o
    Chars("   MAX(EVENT_TIMESTAMP) as LAST_LOGIN,\n    COUNT(*) as LOGI") \o
    Chars("N_COUNT\nFROM SNOWFLAKE.ACCOUNT_USAGE.LOGIN_HISTORY\nWHERE E") \o
    Chars("VENT_TIMESTAMP >= DATEADD(day, -30, CURRENT_TIMESTAMP())\n  ") \o
    Chars("  AND IS_SUCCESS = 'YES'\nGROUP BY USER_NAME, FIRST_AUTHENTI") \o
    Chars("CATION_FACTOR\nORDER BY USER_NAME, LAST_LOGIN DESC")

\* Warehouse Credit Usage
CreditTemplate ==
    Chars("SELECT \n    WAREHOUSE_NAME,\n    SUM(CREDITS_USED) as TOTAL") \o
    Chars("_CREDITS,\n    AVG(CREDITS_USED) as AVG_CREDITS_PER_HOUR,\n ") \o
    Chars("   COUNT(*) as ACTIVE_HOURS\nFROM SNOWFLAKE.ACCOUNT_USAGE.WA") \o
    Chars("REHOUSE_METERING_HISTORY\nWHERE START_TIME >= DATEADD(day, -") \o
    Chars("7, CURRENT_TIMESTAMP())\nGROUP BY WAREHOUSE_NAME\nORDER BY T") \o
    Chars("OTAL_CREDITS DESC")

\* Slow Query Analysis
SlowQueryTemplate ==
    Chars("SELECT \n    QUERY_ID,\n    QUERY_TEXT,\n    USER_NAME,\n   ") \o
    Chars(" WAREHOUSE_NAME,\n    EXECUTION_TIME/1000 as EXECUTION_SECON") \o
    Chars("DS,\n    BYTES_SCANNED,\n    ROWS_PRODUCED\nFROM SNOWFLAKE.A") \o
    Chars("CCOUNT_USAGE.QUERY_HISTORY\nWHERE START_TIME >= DATEADD(hour") \o
    Chars(", -24, CURRENT_TIMESTAMP())\n    AND EXECUTION_STATUS = 'SUC") \o
    Chars("CESS'\n    AND EXECUTION_TIME > 60000  -- Over 1 minute\nORD") \o
    Chars("ER BY EXECUTION_TIME DESC\nLIMIT 50")

\* User Role Grants
RoleGrantsTemplate ==
    Chars("SELECT \n    GRANTEE_NAME as USER_NAME,\n    ROLE,\n    GRAN") \o
    Chars("TED_ON,\n    GRANTED_BY,\n    CREATED_ON\nFROM SNOWFLAKE.ACC") \o
    Chars("OUNT_USAGE.GRANTS_TO_USERS\nWHERE DELETED_ON IS NULL\nORDER ") \o
    Chars("BY USER_NAME, ROLE")

\* Generic Query Template
GenericTemplate ==
    Chars("SELECT \n    column1,\n    column2,\n    COUNT(*) as count,") \o
    Chars("\n    SUM(metric) as total\nFROM SNOWFLAKE.ACCOUNT_USAGE.TABL") \o
    Chars("E_NAME\nWHERE condition = 'value'\n    AND timestamp_column ") \o
    Chars(">= DATEADD(day, -7, CURRENT_TIMESTAMP())\nGROUP BY column1, ") \o
    Chars("column2\nORDER BY total DESC\nLIMIT 100")

\* The keyword lists, with the query each of them selects, in the order of
\* the source.
Templates ==
    << [words |-> {"login", "authentication", "rsa", "password"},
        query |-> AuthenticationTemplate],
       [words |-> {"cost", "credit", "expensive", "warehouse"},
        query |-> CreditTemplate],
       [words |-> {"slow", "query", "performance", "execution"},
        query |-> SlowQueryTemplate],
       [words |-> {"access", "security", "permission", "grant", "role"},
        query |-> RoleGrantsTemplate] >>

\* any(word in description_lower for word in words)
AnyWordIn(words, text) == \E w \in words : Contains(text, Chars(w))

\* local `suggested_queries`
suggested_queries(text) ==
    LET Selected(t) == AnyWordIn(t.words, Lower(text))
    IN  SelectSeq(Templates, Selected)

\* build_query_from_description(description): the queries of the returned
\* text, in order.
build_query_from_description(text) ==
    LET sq == suggested_queries(text)
    IN  IF sq # <<>> THEN [i \in 1..Len(sq) |-> sq[i].query]
        ELSE <<GenericTemplate>>

----------------------------------------------------------------------------
(* Anomaly classification: tools/security.py, detect_unusual_access_patterns *)
(*                                                                          *)
(* Timestamps are whole hours. AVG and STDDEV are kept as the sums they are *)
(* computed from, and the comparisons of the CASE expression are made on    *)
(* integers by cross-multiplication (exact arithmetic).                     *)

\* DATE(ts), HOUR(ts)
DATE(ts) == ts \div 24
HOUR(ts) == ts % 24

\* CURRENT_TIMESTAMP(): day 20, 12:00
CURRENT_TIMESTAMP == 20 * 24 + 12

\* DATEADD(day, n, ts), DATEADD(hour, n, ts)
DATEADD_day(n, ts) == ts + n * 24
DATEADD_hour(n, ts) == ts + n

\* thresholds
thresholds ==
    [ low    |-> [hour_threshold |-> 2, volume_multiplier |-> 10, new_object_days |-> 90],
      medium |-> [hour_threshold |-> 4, volume_multiplier |-> 5,  new_object_days |-> 30],
      high   |-> [hour_threshold |-> 8, volume_multiplier |-> 3,  new_object_days |-> 7] ]

\* Mutant of the lookup: the fallback is the low profile.
Config_fallback_low(level) ==
    IF level \in DOMAIN thresholds THEN thresholds[level] ELSE thresholds["low"]

\* config = thresholds.get(sensitivity_level, thresholds['medium'])
Config(level) ==
    IF level \in DOMAIN thresholds THEN thresholds[level] ELSE thresholds["medium"]

\* SUM(field) over a set of rows
RECURSIVE SUM(_, _)
SUM(rows, field) ==
    IF rows = {} THEN 0
    ELSE LET r == CHOOSE r \in rows : TRUE
         IN  r[field] + SUM(rows \ {r}, field)

\* SUM(field * field) over a set of rows
RECURSIVE SUMSQ(_, _)
SUMSQ(rows, field) ==
    IF rows = {} THEN 0
    ELSE LET r == CHOOSE r \in rows : TRUE
         IN  r[field] * r[field] + SUMSQ(rows \ {r}, field)

\* Mutant of user_access_stats: QUERY_COUNT is COUNT(*), the number of rows.
user_access_stats_count_rows(history, days) ==
    LET inWindow == {r \in history :
                        r.QUERY_START_TIME >= DATEADD_day(-days, CURRENT_TIMESTAMP)}
        keys == {<<r.USER_NAME, DATE(r.QUERY_START_TIME), HOUR(r.QUERY_START_TIME)>> :
                    r \in inWindow}
        group(k) == {r \in inWindow :
                        /\ r.USER_NAME = k[1]
                        /\ DATE(r.QUERY_START_TIME) = k[2]
                        /\ HOUR(r.QUERY_START_TIME) = k[3]}
    IN  { [ USER_NAME          |-> k[1],
            ACCESS_DATE        |-> k[2],
            ACCESS_HOUR        |-> k[3],
            QUERY_COUNT        |-> Cardinality(group(k)),
            OBJECTS_ACCESSED   |-> Cardinality({r.OBJECT_NAME : r \in group(k)}),
            TOTAL_ROWS         |-> SUM(group(k), "ROWS_PRODUCED"),
            DATABASES_ACCESSED |-> Cardinality({r.DATABASE_NAME : r \in group(k)}) ] :
          k \in keys }

\* CTE user_access_stats: one row for each (user, date, hour) with a row of
\* the access history in the window.
user_access_stats(history, days) ==
    LET inWindow == {r \in history :
                        r.QUERY_START_TIME >= DATEADD_day(-days, CURRENT_TIMESTAMP)}
        keys == {<<r.USER_NAME, DATE(r.QUERY_START_TIME), HOUR(r.QUERY_START_TIME)>> :
                    r \in inWindow}
        group(k) == {r \in inWindow :
                        /\ r.USER_NAME = k[1]
                        /\ DATE(r.QUERY_START_TIME) = k[2]
                        /\ HOUR(r.QUERY_START_TIME) = k[3]}
        select(k, g) ==
            [ USER_NAME          |-> k[1],
              ACCESS_DATE        |-> k[2],
              ACCESS_HOUR        |-> k[3],
              QUERY_COUNT        |-> Cardinality({r.QUERY_ID : r \in g}),
              OBJECTS_ACCESSED   |-> Cardinality({r.OBJECT_NAME : r \in g}),
              TOTAL_ROWS         |-> SUM(g, "ROWS_PRODUCED"),
              DATABASES_ACCESSED |-> Cardinality({r.DATABASE_NAME : r \in g}) ]
    IN  { select(k, group(k)) : k \in keys }

\* Mutant of user_baseline: users with a single bucket have no row
\* (HAVING COUNT(*) > 1).
user_baseline_without_single(stats) ==
    { LET mine == {s \in stats : s.USER_NAME = u}
      IN  [ USER_NAME     |-> u,
            N             |-> Cardinality(mine),
            SUM_QUERIES   |-> SUM(mine, "QUERY_COUNT"),
            SUMSQ_QUERIES |-> SUMSQ(mine, "QUERY_COUNT"),
            SUM_OBJECTS   |-> SUM(mine, "OBJECTS_ACCESSED"),
            SUM_ROWS      |-> SUM(mine, "TOTAL_ROWS") ] :
      u \in {s.USER_NAME :
                s \in {y \in stats :
                          Cardinality({x \in stats : x.USER_NAME = y.USER_NAME}) > 1}} }

\* CTE user_baseline: one row for each user of user_access_stats. N is the
\* number of the user's buckets; AVG_QUERIES = SUM_QUERIES / N,
\* AVG_ROWS = SUM_ROWS / N, AVG_OBJECTS = SUM_OBJECTS / N, and STDDEV_QUERIES
\* (Snowflake's STDDEV: the sample standard deviation) is NULL when N = 1 and
\* otherwise sqrt((N * SUMSQ_QUERIES - SUM_QUERIES^2) / (N * (N - 1))).
user_baseline(stats) ==
    { LET mine == {s \in stats : s.USER_NAME = u}
      IN  [ USER_NAME     |-> u,
            N             |-> Cardinality(mine),
            SUM_QUERIES   |-> SUM(mine, "QUERY_COUNT"),
            SUMSQ_QUERIES |-> SUMSQ(mine, "QUERY_COUNT"),
            SUM_OBJECTS   |-> SUM(mine, "OBJECTS_ACCESSED"),
            SUM_ROWS      |-> SUM(mine, "TOTAL_ROWS") ] :
      u \in {s.USER_NAME : s \in stats} }

\* Mutant of the hours test: 06:00 and 22:00 count as unusual.
UnusualHours_inclusive(s) == s.ACCESS_HOUR <= 6 \/ s.ACCESS_HOUR >= 22

\* s.ACCESS_HOUR < 6 OR s.ACCESS_HOUR > 22
UnusualHours(s) == s.ACCESS_HOUR < 6 \/ s.ACCESS_HOUR > 22

\* Mutant of STDDEV: the population standard deviation, 0 for one value.
STDDEV_QUERIES_population(b) ==
    { [ num |-> b.N * b.SUMSQ_QUERIES - b.SUM_QUERIES * b.SUM_QUERIES,
        den |-> b.N * b.N ] }

\* STDDEV(QUERY_COUNT) as STDDEV_QUERIES: Snowflake's STDDEV is the sample
\* standard deviation, NULL for a single value. The value is kept as its
\* square, the fraction num / den, in a set that is empty for NULL.
STDDEV_QUERIES(b) ==
    IF b.N < 2 THEN {}
    ELSE { [ num |-> b.N * b.SUMSQ_QUERIES - b.SUM_QUERIES * b.SUM_QUERIES,
             den |-> b.N * (b.N - 1) ] }

\* Mutant of the query volume test: the baseline leaves out the bucket that
\* is tested.
HighQueryVolume_without_own_bucket(s, b, m) ==
    LET n        == b.N - 1
        sum      == b.SUM_QUERIES - s.QUERY_COUNT
        sumsq    == b.SUMSQ_QUERIES - s.QUERY_COUNT * s.QUERY_COUNT
        excess   == n * s.QUERY_COUNT - sum
        variance == n * sumsq - sum * sum
    IN  /\ n > 1
        /\ excess > 0
        /\ excess * excess * (n - 1) > m * m * variance * n

\* Mutant of the query volume test: >= for >, with a NULL deviation read as 0.
HighQueryVolume_at_least(s, b, m) ==
    LET excess   == b.N * s.QUERY_COUNT - b.SUM_QUERIES
        variance == b.N * b.SUMSQ_QUERIES - b.SUM_QUERIES * b.SUM_QUERIES
    IN  /\ excess >= 0
        /\ excess * excess * (b.N - 1) >= m * m * variance * b.N

\* s.QUERY_COUNT > b.AVG_QUERIES + (volume_multiplier * b.STDDEV_QUERIES);
\* a comparison with NULL is not true.
HighQueryVolume(s, b, m) ==
    LET excess == b.N * s.QUERY_COUNT - b.SUM_QUERIES
    IN  \E sd \in STDDEV_QUERIES(b) :
            /\ excess > 0
            /\ excess * excess * sd.den > m * m * sd.num * b.N * b.N

\* Mutant of the data volume test: >= for >.
HighDataVolume_at_least(s, b, m) == b.N * s.TOTAL_ROWS >= b.SUM_ROWS * m

\* s.TOTAL_ROWS > b.AVG_ROWS * volume_multiplier
HighDataVolume(s, b, m) == b.N * s.TOTAL_ROWS > b.SUM_ROWS * m

\* s.DATABASES_ACCESSED > 3
MultipleDatabaseAccess(s) == s.DATABASES_ACCESSED > 3

\* Mutant of the CASE expression: the data volume test moved to the front.
ANOMALY_TYPE_data_volume_first(s, b, m) ==
    IF HighDataVolume(s, b, m) THEN "High Data Volume"
    ELSE IF UnusualHours(s) THEN "Unusual Hours"
    ELSE IF HighQueryVolume(s, b, m) THEN "High Query Volume"
    ELSE IF MultipleDatabaseAccess(s) THEN "Multiple Database Access"
    ELSE "Normal"

\* CASE ... END as ANOMALY_TYPE
ANOMALY_TYPE(s, b, m) ==
    IF UnusualHours(s) THEN "Unusual Hours"
    ELSE IF HighQueryVolume(s, b, m) THEN "High Query Volume"
    ELSE IF HighDataVolume(s, b, m) THEN "High Data Volume"
    ELSE IF MultipleDatabaseAccess(s) THEN "Multiple Database Access"
    ELSE "Normal"

\* A row of the final result.
ResultRow(user, date, hour, type, queries, objects, rows, databases) ==
    [ USER_NAME |-> user, ACCESS_DATE |-> date, ACCESS_HOUR |-> hour,
      ANOMALY_TYPE |-> type, QUERY_COUNT |-> queries,
      OBJECTS_ACCESSED |-> objects, TOTAL_ROWS |-> rows,
      DATABASES_ACCESSED |-> databases ]

\* CTE anomalies (user_access_stats JOIN user_baseline), as selected by the
\* first branch of the final SELECT: WHERE ANOMALY_TYPE != 'Normal'.
anomalies(stats, baselines, config) ==
    LET joined == {q \in stats \X baselines : q[1].USER_NAME = q[2].USER_NAME}
        rows   == { ResultRow(p[1].USER_NAME, p[1].ACCESS_DATE, p[1].ACCESS_HOUR,
                              ANOMALY_TYPE(p[1], p[2], config.volume_multiplier),
                              p[1].QUERY_COUNT, p[1].OBJECTS_ACCESSED, p[1].TOTAL_ROWS,
                              p[1].DATABASES_ACCESSED) : p \in joined }
    IN  {r \in rows : r.ANOMALY_TYPE # "Normal"}

\* Mutant of the CTE new_object_access: <= for < in the hours test.
new_object_access_inclusive(history, tables, days, config) ==
    { p \in history \X tables :
        /\ p[1].OBJECT_NAME = p[2].TABLE_NAME
        /\ p[1].QUERY_START_TIME >= DATEADD_day(-days, CURRENT_TIMESTAMP)
        /\ p[2].CREATED >= DATEADD_day(-config.new_object_days, CURRENT_TIMESTAMP)
        /\ p[1].QUERY_START_TIME <= DATEADD_hour(config.hour_threshold, p[2].CREATED) }

\* CTE new_object_access: ACCESS_HISTORY JOIN TABLES on the object's name.
new_object_access(history, tables, days, config) ==
    { p \in history \X tables :
        /\ p[1].OBJECT_NAME = p[2].TABLE_NAME
        /\ p[1].QUERY_START_TIME >= DATEADD_day(-days, CURRENT_TIMESTAMP)
        /\ p[2].CREATED >= DATEADD_day(-config.new_object_days, CURRENT_TIMESTAMP)
        /\ p[1].QUERY_START_TIME < DATEADD_hour(config.hour_threshold, p[2].CREATED) }

\* The second branch of the UNION ALL: one row for each row of
\* new_object_access (rows that come out equal are kept, as copies).
NewObjectRows(joined) ==
    LET row(p) == ResultRow(p[1].USER_NAME, DATE(p[1].QUERY_START_TIME),
                            HOUR(p[1].QUERY_START_TIME), "New Object Access",
                            1, 1, 0, 1)
        rows == {row(p) : p \in joined}
    IN  [r \in rows |-> Cardinality({p \in joined : row(p) = r})]

\* Mutant of the subquery: a New Object Access row is dropped when the
\* bucket of its user, date and hour has a row of its own.
AnomalyQuery_exclusive(history, tables, days, level) ==
    LET config  == Config(level)
        stats   == user_access_stats(history, days)
        buckets == anomalies(stats, user_baseline(stats), config)
        fresh   == NewObjectRows(new_object_access(history, tables, days, config))
        kept    == {r \in DOMAIN fresh :
                      ~ \E x \in buckets : /\ x.USER_NAME = r.USER_NAME
                                           /\ x.ACCESS_DATE = r.ACCESS_DATE
                                           /\ x.ACCESS_HOUR = r.ACCESS_HOUR}
    IN  SetToBag(buckets) (+) [r \in kept |-> fresh[r]]

\* The rows of the subquery of the final SELECT (the UNION ALL), as a bag.
AnomalyQuery(history, tables, days, level) ==
    LET config == Config(level)
        stats  == user_access_stats(history, days)
    IN  SetToBag(anomalies(stats, user_baseline(stats), config))
            (+) NewObjectRows(new_object_access(history, tables, days, config))

\* The collation of USER_NAME: the users in the order string comparison
\* puts them in.
UserOrder == <<"alice", "bob">>

Collate(user) == CHOOSE i \in DOMAIN UserOrder : UserOrder[i] = user

\* Mutant of the sort key: ascending dates.
Precedes_date_ascending(r, x) ==
    \/ r.ACCESS_DATE < x.ACCESS_DATE
    \/ r.ACCESS_DATE = x.ACCESS_DATE /\ Collate(r.USER_NAME) <= Collate(x.USER_NAME)

\* ORDER BY ACCESS_DATE DESC, USER_NAME: row r may stand before row x.
Precedes(r, x) ==
    \/ r.ACCESS_DATE > x.ACCESS_DATE
    \/ r.ACCESS_DATE = x.ACCESS_DATE /\ Collate(r.USER_NAME) <= Collate(x.USER_NAME)

\* The orders ORDER BY can return the rows of a bag in: rows with equal keys
\* come in any order.
RECURSIVE Orders(_)
Orders(copies) ==
    IF copies = {} THEN {<<>>}
    ELSE LET first == {c \in copies :
                         /\ \A x \in copies : Precedes(c[1], x[1])
                         /\ \A x \in copies : x[1] = c[1] => x[2] <= c[2]}
         IN  UNION { {<<c[1]>> \o rest : rest \in Orders(copies \ {c})} : c \in first }

ORDER_BY(bag) ==
    Orders(UNION { {<<r, k>> : k \in 1..bag[r]} : r \in DOMAIN bag })

\* user_anomalies = df.groupby(['USER_NAME', 'ANOMALY_TYPE']).size(): the
\* index of the grouped frame, one entry for each (user, kind) with a row.
user_anomalies(d) == {<<d[i].USER_NAME, d[i].ANOMALY_TYPE>> : i \in DOMAIN d}

\* Mutant of the high risk test: the user's rows are counted, not the kinds.
HighRiskUsers_by_rows(d) ==
    SelectSeq(UserOrder,
              LAMBDA u : Cardinality({i \in DOMAIN d : d[i].USER_NAME = u}) >= 3)

\* user_anomalies.groupby('USER_NAME').size(), filtered by >= 3, as a list
\* (groupby sorts its keys).
HighRiskUsers(d) ==
    SelectSeq(UserOrder,
              LAMBDA u : Cardinality({p \in user_anomalies(d) : p[1] = u}) >= 3)

\* The texts detect_unusual_access_patterns returns.
NoAnomaliesReport == "No unusual access patterns detected with current sensitivity settings."
AnomalyReport == "### Summary:"
DetectErrorReport == "Error detecting unusual access patterns: "

----------------------------------------------------------------------------
(* The warehouse's tables *)

Users == {"alice", "bob"}

\* The times queries are logged at: 03:00 and 10:00 of today, and 10:00 of
\* ten days ago.
SlotTime(slot) ==
    IF slot = "night" THEN CURRENT_TIMESTAMP - 9
    ELSE IF slot = "day" THEN CURRENT_TIMESTAMP - 2
    ELSE CURRENT_TIMESTAMP - 10 * 24 - 2

\* SNOWFLAKE.ACCOUNT_USAGE.TABLES (the view keeps the rows of dropped tables):
\* an old table, a table created at 09:00 ten days ago, and a table dropped
\* and created again at 08:00 today.
TABLES ==
    { [TABLE_NAME |-> "DB.S.OLD", CREATED |-> CURRENT_TIMESTAMP - 100 * 24],
      [TABLE_NAME |-> "DB.S.MID", CREATED |-> CURRENT_TIMESTAMP - 10 * 24 - 3],
      [TABLE_NAME |-> "DB.S.NEW", CREATED |-> CURRENT_TIMESTAMP - 100 * 24],
      [TABLE_NAME |-> "DB.S.NEW", CREATED |-> CURRENT_TIMESTAMP - 4] }

\* The kinds of query logged: who ran it, when, how many databases it read
\* (one access history row each), the rows each produced, the table read.
Shapes ==
    <<  [user |-> "alice", slot |-> "night", dbs |-> 1, rows |-> 100, obj |-> "DB.S.OLD"],
        [user |-> "alice", slot |-> "night", dbs |-> 4, rows |-> 0,   obj |-> "DB.S.OLD"],
        [user |-> "alice", slot |-> "day",   dbs |-> 1, rows |-> 100, obj |-> "DB.S.OLD"],
        [user |-> "alice", slot |-> "day",   dbs |-> 4, rows |-> 0,   obj |-> "DB.S.OLD"],
        [user |-> "alice", slot |-> "day",   dbs |-> 1, rows |-> 0,   obj |-> "DB.S.NEW"],
        [user |-> "alice", slot |-> "night", dbs |-> 1, rows |-> 0,   obj |-> "DB.S.NEW"],
        [user |-> "bob",   slot |-> "night", dbs |-> 1, rows |-> 0,   obj |-> "DB.S.OLD"],
        [user |-> "bob",   slot |-> "then",  dbs |-> 1, rows |-> 0,   obj |-> "DB.S.MID"] >>

\* The access history rows of the k-th query of shape i.
QueryRows(i, k) ==
    { [ USER_NAME        |-> Shapes[i].user,
        QUERY_START_TIME |-> SlotTime(Shapes[i].slot),
        QUERY_ID         |-> <<"query", i, k>>,
        OBJECT_NAME      |-> Shapes[i].obj,
        ROWS_PRODUCED    |-> Shapes[i].rows,
        DATABASE_NAME    |-> d ] : d \in 1..Shapes[i].dbs }

\* The i-th routine row: alice, one query on one database producing one row,
\* at 09:00, 11:00, 13:00 and 15:00 of the days before today.
RoutineRow(i) ==
    [ USER_NAME        |-> "alice",
      QUERY_START_TIME |-> (DATE(CURRENT_TIMESTAMP) - 1 - ((i - 1) \div 4)) * 24
                               + 9 + 2 * ((i - 1) % 4),
      QUERY_ID         |-> <<"routine", i, 1>>,
      OBJECT_NAME      |-> "DB.S.OLD",
      ROWS_PRODUCED    |-> 1,
      DATABASE_NAME    |-> 1 ]

\* The access history rows of n queries of one user in the hour that starts
\* at ts: each reads one table in one database and produces one row.
BucketRows(user, ts, n, obj) ==
    { [ USER_NAME        |-> user,
        QUERY_START_TIME |-> ts,
        QUERY_ID         |-> <<"bucket", ts, k>>,
        OBJECT_NAME      |-> obj,
        ROWS_PRODUCED    |-> 1,
        DATABASE_NAME    |-> 1 ] : k \in 1..n }

\* The hours around the limits of the Unusual Hours test.
EdgeHours == {0, 5, 6, 22, 23}

\* 10:00 of the day `back` days before today.
TenOClock(back) == (DATE(CURRENT_TIMESTAMP) - back) * 24 + 10

\* Histories of whole buckets: alice's 10:00 buckets of the last three days
\* and of today, with 0, 2 or 3 queries on the earlier days and 0, 1 or
\* MaxBurst queries today; at most one more query of alice, yesterday in one
\* of the EdgeHours; at most one more query of bob, yesterday at 23:00 or
\* today at 10:00 on the table created at 08:00.
BucketHistories ==
    { BucketRows("alice", TenOClock(3), c[1], "DB.S.OLD")
        \cup BucketRows("alice", TenOClock(2), c[2], "DB.S.OLD")
        \cup BucketRows("alice", TenOClock(1), c[3], "DB.S.OLD")
        \cup BucketRows("alice", TenOClock(0), c[4], "DB.S.OLD")
        \cup (IF c[5] = -1 THEN {}
              ELSE BucketRows("alice", TenOClock(1) - 10 + c[5], 1, "DB.S.OLD"))
        \cup (IF c[6] = 0 THEN {}
              ELSE IF c[6] = 1
              THEN BucketRows("bob", TenOClock(1) + 13, 1, "DB.S.OLD")
              ELSE BucketRows("bob", TenOClock(0), 1, "DB.S.NEW")) :
      c \in {0, 2} \X {0, 3} \X {0, 2} \X {0, 1, MaxBurst}
               \X ({-1} \cup EdgeHours) \X {0, 1, 2} }

QueryIds(history, kind) == {r.QUERY_ID : r \in {x \in history : x.QUERY_ID[1] = kind}}

\* The tokens callers pass as sensitivity_level: the three of the thresholds
\* table, and tokens that are not in it.
SensitivityLevels == {"low", "medium", "high", "HIGH"}

DaysBackChoices == {1, 30}

----------------------------------------------------------------------------
(* The shared connection object: utils/snowflake_connection.py             *)
(*                                                                         *)
(* A connection is known by its place in `opened`. The methods are         *)
(* functions from the object (its field `connection` and the connections   *)
(* opened so far) to the set of ways the call can end, one for each        *)
(* outcome of the connector.                                               *)

\* The connector opens at most MaxConnections connections; once that many
\* were opened snowflake.connector.connect raises.
MaxConnections == 3

\* The tool invocations that can be inside execute_query at the same time.
MaxInvocations == 2
Invocations == 1..MaxInvocations

\* os.environ after load_dotenv(): account and user are set, warehouse and
\* role are set or not.
Environments ==
    { [SNOWFLAKE_ACCOUNT |-> "ENVCO", SNOWFLAKE_USER |-> "svc",
       SNOWFLAKE_WAREHOUSE |-> None, SNOWFLAKE_ROLE |-> None],
      [SNOWFLAKE_ACCOUNT |-> "ENVCO", SNOWFLAKE_USER |-> "svc",
       SNOWFLAKE_WAREHOUSE |-> "ENV_WH", SNOWFLAKE_ROLE |-> "ANALYST"] }

\* The arguments set_account_parameters is called with.
ParameterSets ==
    { [account |-> "ACME", user |-> None, warehouse |-> None, role |-> None],
      [account |-> "GLOBEX", user |-> "auditor", warehouse |-> "AUDIT_WH",
       role |-> "SECURITYADMIN"],
      [account |-> "", user |-> None, warehouse |-> None, role |-> None] }

\* a or b: b when a is None or the empty string
Or(a, b) == IF a = None \/ a = "" THEN b ELSE a

\* os.getenv(name, default): the default only when the variable is not set
Getenv(env, name, default) == IF env[name] = None THEN default ELSE env[name]

\* Mutant of _get_connection_params: the environment is preferred.
get_connection_params_environment_first(dyn, env) ==
    [ account   |-> Or(env.SNOWFLAKE_ACCOUNT, dyn.account),
      user      |-> Or(env.SNOWFLAKE_USER, dyn.user),
      warehouse |-> Or(Or(env.SNOWFLAKE_WAREHOUSE, dyn.warehouse), "COMPUTE_WH"),
      role      |-> Or(Getenv(env, "SNOWFLAKE_ROLE", "ACCOUNTADMIN"), dyn.role) ]

\* SnowflakeConnection._get_connection_params()
get_connection_params(dyn, env) ==
    [ account   |-> Or(dyn.account, env.SNOWFLAKE_ACCOUNT),
      user      |-> Or(dyn.user, env.SNOWFLAKE_USER),
      warehouse |-> Or(Or(dyn.warehouse, env.SNOWFLAKE_WAREHOUSE), "COMPUTE_WH"),
      role      |-> Or(dyn.role, Getenv(env, "SNOWFLAKE_ROLE", "ACCOUNTADMIN")) ]

\* snowflake.connector.connect(**params) returned: a new open connection,
\* created by invocation `by` (0: the sequential caller).
NewConnection(p, by) ==
    [ account |-> p.account, user |-> p.user, warehouse |-> p.warehouse,
      role |-> p.role, open |-> TRUE, by |-> by ]

\* connection.close() on each connection of cs
Closed(os, cs) ==
    [c \in DOMAIN os |-> IF c \in cs THEN [os[c] EXCEPT !.open = FALSE] ELSE os[c]]

\* How a call ends: the object after it, what it returned ("raised" when it
\* raised), and the connection a statement ran on (none: {}).
Ending(connection_, opened_, outcome, on) ==
    [connection |-> connection_, opened |-> opened_, outcome |-> outcome, on |-> on]

\* Mutant of connect: a connection is created whether or not one is cached.
connect_always_creates(self, params) ==
    { Ending(self.connection, self.opened, "raised", {}) } \cup
    { Ending({Len(self.opened) + 1},
             Append(self.opened, NewConnection(params, 0)), "returned", {}) :
      x \in {y \in {1} : Len(self.opened) < MaxConnections} }

\* SnowflakeConnection.connect(): the cached connection, or a new one that is
\* cached, or the connector's exception.
connect(self, params) ==
    IF self.connection # {}
    THEN { Ending(self.connection, self.opened, "returned", {}) }
    ELSE { Ending(self.connection, self.opened, "raised", {}) } \cup
         { Ending({Len(self.opened) + 1},
                  Append(self.opened, NewConnection(params, 0)), "returned", {}) :
           x \in {y \in {1} : Len(self.opened) < MaxConnections} }

\* SnowflakeConnection.execute_query(query): connect(), then the statement on
\* the connection connect() returned; a closed connection raises.
execute_query(self, params) ==
    UNION { IF r.outcome = "raised" THEN {r}
            ELSE { Ending(r.connection, r.opened, "raised", {}) } \cup
                 { Ending(r.connection, r.opened, o, r.connection) :
                   o \in {x \in {"returned", "raised"} :
                             \A c \in r.connection : r.opened[c].open} } :
            r \in connect(self, params) }

\* Mutant of close: the reference is dropped, the connection is not closed.
close_drops_without_closing(self) ==
    { Ending({}, self.opened, "returned", {}) }

\* SnowflakeConnection.close(): connection.close() returns and the reference
\* is dropped, or it raises (having closed the connection or not) and the
\* reference stays.
close(self) ==
    IF self.connection = {}
    THEN { Ending(self.connection, self.opened, "returned", {}) }
    ELSE { Ending({}, Closed(self.opened, self.connection), "returned", {}),
           Ending(self.connection, self.opened, "raised", {}),
           Ending(self.connection, Closed(self.opened, self.connection), "raised", {}) }

\* SnowflakeConnection.test_connection(): True, or close() and False; an
\* exception of close() in the except branch leaves the method.
test_connection(self, params) ==
    UNION { IF r.outcome = "returned"
            THEN { Ending(r.connection, r.opened, "True", r.on) }
            ELSE { Ending(k.connection, k.opened,
                          IF k.outcome = "returned" THEN "False" ELSE "raised", r.on) :
                   k \in close(r) } :
            r \in execute_query(self, params) }

----------------------------------------------------------------------------
(* Requests *)

\* The pieces a request's query text is made of.
Vocabulary ==
    { "select x", "with", "show", " Drop t", "--", "\n", ";", " ",
      " limit 50", " rate_limit", " '--'" }

RECURSIVE Flatten(_)
Flatten(cs) == IF cs = <<>> THEN <<>> ELSE Chars(Head(cs)) \o Flatten(Tail(cs))

ChunkSeqs == UNION {[1..n -> Vocabulary] : n \in 0..MaxChunks}

Queries == {Flatten(cs) : cs \in ChunkSeqs}

Limits == {5, DefaultLimit}

SessionQueries ==
    {Flatten(cs) : cs \in UNION {[1..n -> Vocabulary] : n \in 0..MaxSessionChunks}}

EnvTimeoutChoices == {Unset, Chars("60"), Chars("5m")}

\* A description is at most MaxDescriptionChunks pieces.
MaxDescriptionChunks == 3

DescriptionVocabulary ==
    { "Show", " failed Login", " cost", " slow", " Role", " tables" }

Descriptions ==
    {Flatten(cs) :
        cs \in UNION {[1..n -> DescriptionVocabulary] : n \in 0..MaxDescriptionChunks}}

\* SnowflakeConnection(): nothing is cached, no dynamic parameter is set; no
\* invocation is under way.
InitObject(environments) ==
    /\ environ \in environments
    /\ dynamic = [account |-> None, user |-> None, warehouse |-> None, role |-> None]
    /\ connectionObject = {}
    /\ opened = <<>>
    /\ ipc = [t \in Invocations |-> "idle"]
    /\ conn = [t \in Invocations |-> {}]
    /\ last = [op |-> "__init__", outcome |-> "returned"]
    /\ ranOn = {}
    /\ lastSet = [outcome |-> "never", mark |-> 0]

\* The state before a request: the handlers have not run, no connection is
\* open, the access history is empty.
InitHandlers(queries, limits, envs) ==
    /\ query \in queries
    /\ limit \in limits
    /\ envTimeout \in envs
    /\ connection = None
    /\ pc = "request"
    /\ gateOk = "pending"
    /\ sentQuery = Unset
    /\ timeout = NoTimeout
    /\ calls = <<>>
    /\ result = "pending"
    /\ served = 0
    /\ refusals = {}
    /\ raised = [h \in Handlers |-> NoError]
    /\ errorText = [h \in Handlers |-> NoError]
    /\ accessHistory = {}
    /\ dpc = "idle"
    /\ days_back = 7
    /\ sensitivity_level = "medium"
    /\ df = <<>>
    /\ report = "pending"
    /\ high_risk_users = <<>>

\* help_build_query has not run.
InitHelp(descriptions) ==
    /\ description \in descriptions
    /\ suggestions = <<>>
    /\ hpc = "idle"

\* The handlers are studied in one environment.
InitWith(queries, limits, envs) ==
    /\ InitHandlers(queries, limits, envs)
    /\ InitObject({e \in Environments : e.SNOWFLAKE_ROLE = None})
    /\ InitHelp({<<>>})

InitGate == InitWith(Queries, Limits, EnvTimeoutChoices)

\* snowflake_conn.execute_query raises e in handler h: the except branch.
Raises(h, e) ==
    /\ raised' = [raised EXCEPT ![h] = e]
    /\ errorText' = [errorText EXCEPT ![h] = ErrorText(e)]

\* Mutant of the handler: the refusal is built but execution goes on.
ExecuteAccountUsageQuery_no_return ==
    /\ pc = "request"
    /\ pc' = "done"
    /\ gateOk' = IF is_read_only_query(query) THEN "accepted" ELSE "rejected"
    /\ sentQuery' = add_limit_if_missing(query, limit)
    /\ timeout' = NoTimeout
    /\ calls' = Append(calls, CursorExecute(sentQuery'))
    /\ connection' = "open"
    /\ result' = IF is_read_only_query(query) THEN ResultsMessage ELSE RefusalMessage
    /\ served' = served + 1
    /\ refusals' = IF is_read_only_query(query) THEN refusals
                   ELSE refusals \cup {<<ReturnTaken(query), RefusalMessage>>}
    /\ UNCHANGED <<query, limit, envTimeout, raised, errorText, detectVars,
                   connVars, helpVars>>

\* execute_account_usage_query(query, limit): the whole handler, with the
\* outcome of the warehouse (connect fails, execute fails, no rows, rows).
ExecuteAccountUsageQuery ==
    /\ pc = "request"
    /\ pc' = "done"
    /\ served' = served + 1
    /\ UNCHANGED <<query, limit, envTimeout, detectVars, connVars, helpVars>>
    /\ IF ~is_read_only_query(query)
       THEN /\ gateOk' = "rejected"
            /\ result' = RefusalMessage
            /\ refusals' = refusals \cup {<<ReturnTaken(query), result'>>}
            /\ UNCHANGED <<sentQuery, timeout, calls, connection, raised, errorText>>
       ELSE /\ gateOk' = "accepted"
            /\ UNCHANGED refusals
            /\ sentQuery' = add_limit_if_missing(query, limit)
            /\ IF ~IsIntText(GetenvTimeout(envTimeout))
               THEN \* int() raises ValueError: the except branch
                    /\ result' = QueryErrorMessage
                    /\ errorText' = [errorText EXCEPT
                           !["execute_account_usage_query"] = ErrorText(ValueError)]
                    /\ UNCHANGED <<timeout, calls, connection, raised>>
               ELSE /\ timeout' = {TextToNat(GetenvTimeout(envTimeout))}
                    /\ \/ \* connect() raises
                          /\ connection = None
                          /\ result' = QueryErrorMessage
                          /\ Raises("execute_account_usage_query", ConnectError)
                          /\ UNCHANGED <<calls, connection>>
                       \/ \* cursor.execute(query) raises
                          /\ connection' = "open"
                          /\ calls' = Append(calls, CursorExecute(sentQuery'))
                          /\ result' = QueryErrorMessage
                          /\ Raises("execute_account_usage_query", ExecuteError)
                       \/ \* df.empty
                          /\ connection' = "open"
                          /\ calls' = Append(calls, CursorExecute(sentQuery'))
                          /\ result' = NoDataMessage
                          /\ UNCHANGED <<raised, errorText>>
                       \/ /\ connection' = "open"
                          /\ calls' = Append(calls, CursorExecute(sentQuery'))
                          /\ result' = ResultsMessage
                          /\ UNCHANGED <<raised, errorText>>

\* The client submits the next request of a session.
SubmitQuery ==
    /\ pc = "done"
    /\ served < MaxRequests
    /\ query' \in SessionQueries
    /\ limit' \in Limits
    /\ pc' = "request"
    /\ gateOk' = "pending"
    /\ sentQuery' = Unset
    /\ timeout' = NoTimeout
    /\ result' = "pending"
    /\ raised' = [raised EXCEPT !["execute_account_usage_query"] = NoError]
    /\ errorText' = [errorText EXCEPT !["execute_account_usage_query"] = NoError]
    /\ UNCHANGED <<envTimeout, calls, connection, served, refusals, detectVars,
                   connVars, helpVars>>

\* The warehouse logs one more routine query of alice.
RecordRoutine ==
    /\ dpc = "idle"
    /\ Cardinality(QueryIds(accessHistory, "routine")) < MaxRoutine
    /\ accessHistory' = accessHistory
           \cup {RoutineRow(Cardinality(QueryIds(accessHistory, "routine")) + 1)}
    /\ UNCHANGED <<gateVars, dpc, days_back, sensitivity_level, df, report,
                   high_risk_users, connVars, helpVars>>

\* The warehouse logs one more query of one of the shapes.
RecordQuery ==
    /\ dpc = "idle"
    /\ Cardinality(QueryIds(accessHistory, "query")) < MaxQueries
    /\ \E i \in DOMAIN Shapes :
          accessHistory' = accessHistory \cup
              QueryRows(i, Cardinality({q \in QueryIds(accessHistory, "query") : q[2] = i}) + 1)
    /\ UNCHANGED <<gateVars, dpc, days_back, sensitivity_level, df, report,
                   high_risk_users, connVars, helpVars>>

\* detect_unusual_access_patterns(days_back, sensitivity_level): the whole
\* handler, with the outcome of the warehouse.
DetectUnusualAccessPatterns ==
    /\ dpc = "idle"
    /\ dpc' = "done"
    /\ days_back' \in DaysBackChoices
    /\ sensitivity_level' \in SensitivityLevels
    /\ \/ \* connect() raises
          /\ connection = None
          /\ report' = DetectErrorReport
          /\ Raises("detect_unusual_access_patterns", ConnectError)
          /\ UNCHANGED <<calls, connection, df, high_risk_users>>
       \/ \* cursor.execute(query) raises
          /\ connection' = "open"
          /\ calls' = Append(calls, CursorExecute(<<"unusual access patterns">>))
          /\ report' = DetectErrorReport
          /\ Raises("detect_unusual_access_patterns", ExecuteError)
          /\ UNCHANGED <<df, high_risk_users>>
       \/ /\ connection' = "open"
          /\ calls' = Append(calls, CursorExecute(<<"unusual access patterns">>))
          /\ df' \in ORDER_BY(AnomalyQuery(accessHistory, TABLES, days_back',
                                            sensitivity_level'))
          /\ report' = IF df' = <<>> THEN NoAnomaliesReport ELSE AnomalyReport
          /\ high_risk_users' = IF df' = <<>> THEN high_risk_users
                                ELSE HighRiskUsers(df')
          /\ UNCHANGED <<raised, errorText>>
    /\ UNCHANGED <<query, limit, envTimeout, pc, gateOk, sentQuery, timeout,
                   result, served, refusals, accessHistory, connVars, helpVars>>

\* The warehouse has logged the queries of whole buckets.
RecordBuckets ==
    /\ dpc = "idle"
    /\ accessHistory = {}
    /\ accessHistory' \in BucketHistories \ {{}}
    /\ UNCHANGED <<gateVars, dpc, days_back, sensitivity_level, df, report,
                   high_risk_users, connVars, helpVars>>

\* The object as the methods see it.
Object == [connection |-> connectionObject, opened |-> opened]

\* The calls are made one after another.
Sequential == \A t \in Invocations : ipc[t] = "idle"

\* The call `op` ends as r.
Returns(r, op) ==
    /\ connectionObject' = r.connection
    /\ opened' = r.opened
    /\ last' = [op |-> op, outcome |-> r.outcome]
    /\ ranOn' = IF r.on = {} THEN ranOn ELSE r.on

\* snowflake_conn.connect()
Connect ==
    /\ Sequential
    /\ \E r \in connect(Object, get_connection_params(dynamic, environ)) :
          Returns(r, "connect")
    /\ UNCHANGED <<gateVars, detectVars, helpVars, environ, dynamic, ipc, conn, lastSet>>

\* snowflake_conn.execute_query(query)
ExecuteQuery ==
    /\ Sequential
    /\ \E r \in execute_query(Object, get_connection_params(dynamic, environ)) :
          Returns(r, "execute_query")
    /\ UNCHANGED <<gateVars, detectVars, helpVars, environ, dynamic, ipc, conn, lastSet>>

\* snowflake_conn.test_connection()
TestConnection ==
    /\ Sequential
    /\ \E r \in test_connection(Object, get_connection_params(dynamic, environ)) :
          Returns(r, "test_connection")
    /\ UNCHANGED <<gateVars, detectVars, helpVars, environ, dynamic, ipc, conn, lastSet>>

\* snowflake_conn.close()
Close ==
    /\ Sequential
    /\ \E r \in close(Object) : Returns(r, "close")
    /\ UNCHANGED <<gateVars, detectVars, helpVars, environ, dynamic, ipc, conn, lastSet>>

\* snowflake_conn.set_account_parameters(account, user, warehouse, role): the
\* four fields are set, then close().
SetAccountParameters ==
    /\ Sequential
    /\ dynamic' \in ParameterSets
    /\ \E r \in close(Object) :
          /\ connectionObject' = r.connection
          /\ opened' = r.opened
          /\ last' = [op |-> "set_account_parameters", outcome |-> r.outcome]
          /\ lastSet' = [outcome |-> r.outcome, mark |-> Len(opened)]
    /\ ranOn' = {}
    /\ UNCHANGED <<gateVars, detectVars, helpVars, environ, ipc, conn>>

\* A tool invocation calls snowflake_conn.execute_query (line 81).
Invoke(t) ==
    /\ ipc[t] = "idle"
    /\ ipc' = [ipc EXCEPT ![t] = "connect"]
    /\ UNCHANGED <<gateVars, detectVars, helpVars, environ, dynamic, connectionObject,
                   opened, conn, last, ranOn, lastSet>>

\* connect(), line 48: `if self.connection is None`
ConnectIsNone(t) ==
    /\ ipc[t] = "connect"
    /\ ipc' = [ipc EXCEPT ![t] = IF connectionObject = {} THEN "create" ELSE "return"]
    /\ UNCHANGED <<gateVars, detectVars, helpVars, environ, dynamic, connectionObject,
                   opened, conn, last, ranOn, lastSet>>

\* connect(), lines 49-76: the connector raises, or its connection is
\* assigned to self.connection.
ConnectCreate(t) ==
    /\ ipc[t] = "create"
    /\ \/ /\ ipc' = [ipc EXCEPT ![t] = "idle"]
          /\ last' = [op |-> "execute_query", outcome |-> "raised"]
          /\ UNCHANGED <<connectionObject, opened>>
       \/ /\ Len(opened) < MaxConnections
          /\ opened' = Append(opened,
                 NewConnection(get_connection_params(dynamic, environ), t))
          /\ connectionObject' = {Len(opened')}
          /\ ipc' = [ipc EXCEPT ![t] = "return"]
          /\ UNCHANGED last
    /\ UNCHANGED <<gateVars, detectVars, helpVars, environ, dynamic, conn, ranOn, lastSet>>

\* connect(), line 77, and execute_query, lines 81-84: self.connection is
\* read and returned, and the statement is sent on it.
ConnectReturn(t) ==
    /\ ipc[t] = "return"
    /\ conn' = [conn EXCEPT ![t] = connectionObject]
    /\ ipc' = [ipc EXCEPT ![t] = "execute"]
    /\ UNCHANGED <<gateVars, detectVars, helpVars, environ, dynamic, connectionObject,
                   opened, last, ranOn, lastSet>>

\* execute_query, lines 84-89: the statement ends, the cursor is closed.
ExecuteReturn(t) ==
    /\ ipc[t] = "execute"
    /\ ipc' = [ipc EXCEPT ![t] = "idle"]
    /\ conn' = [conn EXCEPT ![t] = {}]
    /\ ranOn' = conn[t]
    /\ \E o \in {"returned", "raised"} :
          last' = [op |-> "execute_query", outcome |-> o]
    /\ UNCHANGED <<gateVars, detectVars, helpVars, environ, dynamic, connectionObject,
                   opened, lastSet>>

\* help_build_query(description): the whole handler.
HelpBuildQuery ==
    /\ hpc = "idle"
    /\ hpc' = "done"
    /\ suggestions' = build_query_from_description(description)
    /\ UNCHANGED <<gateVars, detectVars, connVars, description>>

\* The client passes one of the suggestions, unchanged, to execute_query.
PassSuggestion ==
    /\ hpc = "done"
    /\ pc = "request"
    /\ hpc' = "passed"
    /\ \E i \in DOMAIN suggestions : query' = suggestions[i]
    /\ UNCHANGED <<limit, envTimeout, pc, gateOk, sentQuery, timeout, calls,
                   connection, result, served, refusals, raised, errorText,
                   detectVars, connVars, description, suggestions>>

InitSession == InitWith(SessionQueries, Limits, EnvTimeoutChoices)

Init == InitGate

Next == ExecuteAccountUsageQuery

\* One request, its query text drawn from Queries.
Spec == Init /\ [][Next]_vars

NextSession == ExecuteAccountUsageQuery \/ SubmitQuery

\* A session of requests served one after another.
SpecSession == InitSession /\ [][NextSession]_vars

InitDetect == InitWith({<<>>}, {DefaultLimit}, {Unset})

NextDetect == RecordRoutine \/ RecordQuery \/ DetectUnusualAccessPatterns

\* The access history grows, and the anomaly detection is run on it.
SpecDetect == InitDetect /\ [][NextDetect]_vars

NextBuckets == RecordBuckets \/ DetectUnusualAccessPatterns

\* The anomaly detection is run on a history of whole buckets.
SpecBuckets == InitDetect /\ [][NextBuckets]_vars

NextFailures ==
    ExecuteAccountUsageQuery \/ RecordRoutine \/ DetectUnusualAccessPatterns

\* One request to each of the two handlers, in either order.
SpecFailures == InitSession /\ [][NextFailures]_vars

InitSuggest ==
    /\ InitHandlers({<<>>}, {DefaultLimit}, {Unset})
    /\ InitObject({e \in Environments : e.SNOWFLAKE_ROLE = None})
    /\ InitHelp(Descriptions)

NextSuggest == HelpBuildQuery \/ PassSuggestion \/ ExecuteAccountUsageQuery

\* A query is asked for, and a suggested one is passed to execute_query.
SpecSuggest == InitSuggest /\ [][NextSuggest]_vars

InitConnection ==
    /\ InitHandlers({<<>>}, {DefaultLimit}, {Unset})
    /\ InitObject(Environments)
    /\ InitHelp({<<>>})

NextConnection ==
    Connect \/ ExecuteQuery \/ TestConnection \/ Close \/ SetAccountParameters

\* The methods of the one connection object, called one after another.
SpecConnection == InitConnection /\ [][NextConnection]_vars

NextConcurrent ==
    \E t \in Invocations :
        Invoke(t) \/ ConnectIsNone(t) \/ ConnectCreate(t) \/ ConnectReturn(t)
            \/ ExecuteReturn(t)

\* Tool invocations inside snowflake_conn.execute_query at the same time.
SpecConcurrent == InitConnection /\ [][NextConcurrent]_vars

TypeOK ==
    /\ pc \in {"request", "done"}
    /\ gateOk \in {"pending", "accepted", "rejected"}
    /\ dpc \in {"idle", "done"}
    /\ Len(calls) <= served + (IF dpc = "done" THEN 1 ELSE 0)
    /\ DOMAIN df = 1..Len(df)
    /\ Len(high_risk_users) <= Len(UserOrder)

----------------------------------------------------------------------------
(* How the warehouse reads a statement: used to state what the claims say   *)
(* about the text that reaches it. A single quote opens and closes a string *)
(* literal, "--" outside a literal opens a comment that ends with its line. *)

RECURSIVE Lex(_, _)
Lex(s, mode) ==
    IF s = <<>> THEN <<>>
    ELSE IF mode = "code" /\ StartsWith(s, <<"-", "-">>)
    THEN <<"comment">> \o Lex(Tail(s), "comment")
    ELSE IF mode = "code" /\ s[1] = "'"
    THEN <<"string">> \o Lex(Tail(s), "string")
    ELSE IF mode = "string"
    THEN <<"string">> \o Lex(Tail(s), IF s[1] = "'" THEN "code" ELSE "string")
    ELSE IF mode = "comment" /\ s[1] # "\n"
    THEN <<"comment">> \o Lex(Tail(s), "comment")
    ELSE <<"code">> \o Lex(Tail(s), "code")

LexModes(s) == Lex(s, "code")

\* The statement's own text, upper-cased: literals and comments blanked.
CodeText(s) ==
    LET m == LexModes(s)
    IN  [i \in 1..Len(s) |-> IF m[i] = "code" THEN UpperChar(s[i]) ELSE " "]

\* The first statement: the code text before the first terminator.
RECURSIVE UpToTerminator(_)
UpToTerminator(s) ==
    IF s = <<>> \/ s[1] = ";" THEN <<>>
    ELSE <<s[1]>> \o UpToTerminator(Tail(s))

WordChars ==
    {"_"} \cup {UpperLetters[i] : i \in 1..26} \cup {LowerLetters[i] : i \in 1..26}
          \cup {Digits[i] : i \in 1..10}

IsWordChar(c) == c \in WordChars

\* The words of a text: its maximal runs of letters, digits and "_".
RECURSIVE WordsFrom(_, _)
WordsFrom(s, word) ==
    IF s = <<>> THEN (IF word = <<>> THEN <<>> ELSE <<word>>)
    ELSE IF IsWordChar(s[1]) THEN WordsFrom(Tail(s), Append(word, s[1]))
    ELSE (IF word = <<>> THEN <<>> ELSE <<word>>) \o WordsFrom(Tail(s), <<>>)

StatementWords(s) == WordsFrom(UpToTerminator(CodeText(s)), <<>>)

\* The text has a LIMIT clause of its own: the word LIMIT outside literals,
\* comments and longer identifiers.
HasLimitClause(s) ==
    LET w == WordsFrom(CodeText(s), <<>>)
    IN  \E i \in DOMAIN w : w[i] = Chars("LIMIT")

\* The row bounds the statement's LIMIT clauses state (none: unbounded).
RowBounds(s) ==
    LET w == StatementWords(s)
    IN  { TextToNat(w[i + 1]) :
            i \in {j \in 1..(Len(w) - 1) :
                     w[j] = Chars("LIMIT") /\ IsIntText(w[j + 1])} }

\* The places <<k, i>> where keyword k occurs in q at position i, in any
\* letter case.
KeywordPlaces(q) ==
    LET u == Upper(q)
    IN  {p \in KeywordSet \X (1..Len(q)) :
            /\ p[2] + Len(p[1]) - 1 <= Len(q)
            /\ SubSeq(u, p[2], p[2] + Len(p[1]) - 1) = p[1]}

\* Position i of q follows a "--" on its own line.
AfterCommentMarker(q, i) ==
    \E j \in 1..(i - 2) :
        /\ q[j] = "-" /\ q[j + 1] = "-"
        /\ \A m \in j..(i - 1) : q[m] # "\n"

LimitClause(n) == Chars(" LIMIT ") \o IntToText(n)

----------------------------------------------------------------------------
(* Claims *)

\* C1 (as stated): every query text that contains a denylisted keyword, in
\* any letter case, is refused, wherever "--" comments are placed around it.
C1_EveryKeywordRejected ==
    (pc = "done" /\ KeywordPlaces(query) # {}) => result = RefusalMessage

\* C1 (amended): every query text in which a denylisted keyword occurs, in any
\* letter case, at a place that does not follow a "--" on its own line is
\* refused and nothing is executed, whatever comments precede it on earlier
\* lines or follow it on its line.
C1_KeywordOutsideCommentRejected ==
    (pc = "done" /\ \E p \in KeywordPlaces(query) : ~AfterCommentMarker(query, p[2]))
        => (gateOk = "rejected" /\ result = RefusalMessage /\ calls = <<>>)

\* C1 witness: a refused request whose text has a comment marker and a lower
\* or mixed case keyword outside the comment.
C1_Witness ==
    /\ pc = "done" /\ result = RefusalMessage
    /\ Contains(query, <<"-", "-">>)
    /\ ~ \E k \in KeywordSet : Contains(query, k)
    /\ \E p \in KeywordPlaces(query) : ~AfterCommentMarker(query, p[2])

\* C2: the warehouse is called only for a request the gate accepted, with the
\* text the handler built for it; a request the gate rejects gets the refusal
\* and no warehouse call at all.
C2_NoExecutionAfterRejection ==
    /\ (pc = "done" /\ ReturnTaken(query) # "accept")
           => (result = RefusalMessage /\ calls = <<>> /\ sentQuery = Unset)
    /\ calls # <<>> => (gateOk = "accepted" /\ ReturnTaken(query) = "accept")
    /\ \A i \in DOMAIN calls : calls[i].sql = sentQuery

\* C2 witness: a rejected request, answered with the refusal, nothing executed.
C2_Witness ==
    pc = "done" /\ gateOk = "rejected" /\ result = RefusalMessage /\ calls = <<>>

\* C3: a query whose normalized text (comments removed, upper-cased, trimmed)
\* begins neither with SELECT nor with WITH is refused.
C3_NonSelectRejected ==
    (pc = "done" /\ ~(StartsWith(Normalize(query), Chars("SELECT"))
                      \/ StartsWith(Normalize(query), Chars("WITH"))))
        => (gateOk = "rejected" /\ result = RefusalMessage /\ calls = <<>>)

\* C3 witness: a refused request with no denylisted keyword in it.
C3_Witness ==
    /\ pc = "done" /\ result = RefusalMessage
    /\ ReturnTaken(query) = "prefix"
    /\ query # <<>>

\* C4 (as stated): every text handed to the warehouse bounds its result to at
\* most `limit` rows.
C4_ExecutedTextBounded ==
    \A i \in DOMAIN calls :
        /\ RowBounds(calls[i].sql) # {}
        /\ \A n \in RowBounds(calls[i].sql) : n <= limit

\* C5 (as stated): an accepted query with no LIMIT clause of its own comes
\* back from add_limit_if_missing with "LIMIT <limit>" appended.
C5_LimitAppendedWhenNoClause ==
    (pc = "done" /\ gateOk = "accepted" /\ ~HasLimitClause(query))
        => EndsWith(sentQuery, LimitClause(limit))

\* C6 (as stated): an appended LIMIT clause is part of the statement: no
\* statement terminator is left in front of it and it is not inside a comment.
C6_AppendedClauseEffective ==
    (pc = "done" /\ gateOk = "accepted" /\ sentQuery # query)
        => LET n == Len(sentQuery) - Len(LimitClause(limit))
           IN  /\ ~EndsWith(RStrip(SubSeq(sentQuery, 1, n), Whitespace), <<";">>)
               /\ LexModes(sentQuery)[n + 2] = "code"

\* C7: add_limit_if_missing is idempotent, and the text the handler built for
\* an accepted query passes the gate again and is left as it is.
C7_RewriteIdempotent ==
    /\ add_limit_if_missing(add_limit_if_missing(query, limit), limit)
           = add_limit_if_missing(query, limit)
    /\ gateOk = "accepted"
           => /\ is_read_only_query(sentQuery)
              /\ add_limit_if_missing(sentQuery, limit) = sentQuery

\* C7 witness: an accepted request to which a LIMIT clause was appended.
C7_Witness ==
    /\ pc = "done" /\ gateOk = "accepted"
    /\ sentQuery # query
    /\ EndsWith(sentQuery, LimitClause(limit))

\* C8 (as stated): every warehouse call is made with the configured timeout.
C8_TimeoutApplied ==
    \A i \in DOMAIN calls : calls[i].timeout # NoTimeout /\ calls[i].timeout = timeout

\* C9 (as stated): a refusal for a denylisted keyword and a refusal for a text
\* that does not begin with SELECT or WITH are different results.
C9_RejectionKindsDistinguishable ==
    \A r1, r2 \in refusals : r1[1] # r2[1] => r1[2] # r2[2]

\* The four kinds a bucket can be given.
BucketKinds ==
    {"Unusual Hours", "High Query Volume", "High Data Volume", "Multiple Database Access"}

\* The multiplier of the invocation that has run.
Multiplier == Config(sensitivity_level).volume_multiplier

\* The number of rows of df that bucket s has of the given kind.
RowsOfKind(s, kind) ==
    Cardinality({i \in DOMAIN df :
                   df[i] = ResultRow(s.USER_NAME, s.ACCESS_DATE, s.ACCESS_HOUR, kind,
                                     s.QUERY_COUNT, s.OBJECTS_ACCESSED, s.TOTAL_ROWS,
                                     s.DATABASES_ACCESSED)})

\* The number of rows of df that bucket s has of the four kinds, whatever
\* their other columns.
BucketRowCount(s) ==
    Cardinality({i \in DOMAIN df :
                   /\ df[i].USER_NAME = s.USER_NAME
                   /\ df[i].ACCESS_DATE = s.ACCESS_DATE
                   /\ df[i].ACCESS_HOUR = s.ACCESS_HOUR
                   /\ df[i].ANOMALY_TYPE \in BucketKinds})

\* C10: every bucket has at most one row among the four bucket kinds, and its
\* kind is the first of Unusual Hours, High Query Volume, High Data Volume,
\* Multiple Database Access whose test the bucket passes.
C10_FirstMatchingKind ==
    (dpc = "done" /\ report # DetectErrorReport) =>
        LET stats     == user_access_stats(accessHistory, days_back)
            baselines == user_baseline(stats)
        IN  \A s \in stats :
                LET b  == CHOOSE x \in baselines : x.USER_NAME = s.USER_NAME
                    uh == UnusualHours(s)
                    qv == HighQueryVolume(s, b, Multiplier)
                    dv == HighDataVolume(s, b, Multiplier)
                    md == MultipleDatabaseAccess(s)
                IN  /\ BucketRowCount(s) <= 1
                    /\ BucketRowCount(s) = 1 <=> (uh \/ qv \/ dv \/ md)
                    /\ RowsOfKind(s, "Unusual Hours") = 1 <=> uh
                    /\ RowsOfKind(s, "High Query Volume") = 1 <=> (~uh /\ qv)
                    /\ RowsOfKind(s, "High Data Volume") = 1 <=> (~uh /\ ~qv /\ dv)
                    /\ RowsOfKind(s, "Multiple Database Access") = 1
                           <=> (~uh /\ ~qv /\ ~dv /\ md)

\* C10 witness: a bucket that passes the Unusual Hours and the High Data
\* Volume test has exactly one row, of kind Unusual Hours.
C10_Witness ==
    /\ dpc = "done" /\ report = AnomalyReport
    /\ LET stats     == user_access_stats(accessHistory, days_back)
           baselines == user_baseline(stats)
       IN  \E s \in stats :
              /\ UnusualHours(s)
              /\ HighDataVolume(s, CHOOSE x \in baselines : x.USER_NAME = s.USER_NAME,
                                Multiplier)
              /\ BucketRowCount(s) = 1
              /\ RowsOfKind(s, "Unusual Hours") = 1

\* The buckets of a user in the window of the invocation that has run.
BucketsOf(user) ==
    {s \in user_access_stats(accessHistory, days_back) : s.USER_NAME = user}

\* The invocation that has run returned the rows of its query.
Analysed == dpc = "done" /\ report # DetectErrorReport

\* Bucket s is the fourth of the scenario: alice has four buckets in the
\* window, none in unusual hours, s with 20 queries and the others with 2, 3
\* and 2.
BurstScenario(s) ==
    LET mine == BucketsOf("alice")
    IN  /\ s \in mine
        /\ Cardinality(mine) = 4
        /\ \A x \in mine : ~UnusualHours(x)
        /\ s.QUERY_COUNT = 20
        /\ Cardinality({x \in mine : x.QUERY_COUNT = 2}) = 2
        /\ Cardinality({x \in mine : x.QUERY_COUNT = 3}) = 1

C12_SingleBucketNeverHighQueryVolume ==
    Analysed =>
        \A u \in Users :
            Cardinality(BucketsOf(u)) = 1
                => \A i \in DOMAIN df :
                       df[i].USER_NAME = u => df[i].ANOMALY_TYPE # "High Query Volume"

\* C12 witness: alice's only bucket in the window has MaxBurst queries, is
\* not in unusual hours, was analysed under high sensitivity and has no row.
C12_Witness ==
    /\ Analysed /\ sensitivity_level = "high"
    /\ Cardinality(BucketsOf("alice")) = 1
    /\ \E s \in BucketsOf("alice") :
          /\ s.QUERY_COUNT = MaxBurst
          /\ ~UnusualHours(s)
          /\ BucketRowCount(s) = 0

\* The time the table DB.S.NEW was created at (the last time).
NewTableCreated == CURRENT_TIMESTAMP - 4

\* The access events (rows of the access history) on DB.S.NEW at exactly two
\* hours after its creation.
BoundaryAccesses ==
    {r \in accessHistory :
        /\ r.OBJECT_NAME = "DB.S.NEW"
        /\ r.QUERY_START_TIME = DATEADD_hour(2, NewTableCreated)}

\* The New Object Access rows among rows d for a user at the timestamp ts.
NewObjectRowsAt(d, user, ts) ==
    {i \in DOMAIN d :
        /\ d[i].ANOMALY_TYPE = "New Object Access"
        /\ d[i].USER_NAME = user
        /\ d[i].ACCESS_DATE = DATE(ts)
        /\ d[i].ACCESS_HOUR = HOUR(ts)}

\* C13: the accesses at exactly creation + 2 hours have one New Object Access
\* row each under high sensitivity (8 hours, 7 days) and under medium
\* (4 hours), and none under low (2 hours): the hours test is strict.
C13_StrictHourBoundary ==
    (Analysed /\ sensitivity_level \in {"low", "medium", "high"})
        => \A u \in Users :
               Cardinality(NewObjectRowsAt(df, u, DATEADD_hour(2, NewTableCreated)))
                   = IF sensitivity_level = "low" THEN 0
                     ELSE Cardinality({r \in BoundaryAccesses : r.USER_NAME = u})

\* C13 witness: one access at exactly creation + 2 hours, analysed under high
\* sensitivity, has exactly one New Object Access row; the same history has
\* no New Object Access row when the query is computed for low.
C13_Witness ==
    /\ Analysed /\ sensitivity_level = "high"
    /\ Cardinality(BoundaryAccesses) = 1
    /\ Cardinality({i \in DOMAIN df : df[i].ANOMALY_TYPE = "New Object Access"}) = 1
    /\ \A r \in BagToSet(AnomalyQuery(accessHistory, TABLES, days_back, "low")) :
           r.ANOMALY_TYPE # "New Object Access"

\* The access events of the window.
EventsInWindow ==
    {r \in accessHistory :
        r.QUERY_START_TIME >= DATEADD_day(-days_back, CURRENT_TIMESTAMP)}

\* Access event r is an access to a new object: a table of the name it read
\* was created at most new_object_days days and less than hour_threshold
\* hours before the access.
AccessToNewObject(r, config) ==
    \E t \in TABLES :
        /\ t.TABLE_NAME = r.OBJECT_NAME
        /\ t.CREATED <= r.QUERY_START_TIME
        /\ r.QUERY_START_TIME <= DATEADD_day(config.new_object_days, t.CREATED)
        /\ r.QUERY_START_TIME < DATEADD_hour(config.hour_threshold, t.CREATED)

\* C14 (as stated): the New Object Access rows are one for each access event
\* of the window made within new_object_days days and hour_threshold hours of
\* the creation of the object it read, and none for any other access event.
C14_OneRowPerAccessToNewObject ==
    Analysed =>
        \A r \in EventsInWindow :
            Cardinality(NewObjectRowsAt(df, r.USER_NAME, r.QUERY_START_TIME))
                = Cardinality({x \in EventsInWindow :
                                  /\ x.USER_NAME = r.USER_NAME
                                  /\ x.QUERY_START_TIME = r.QUERY_START_TIME
                                  /\ AccessToNewObject(x, Config(sensitivity_level))})

\* The rows of new_object_access for the invocation that has run.
Joined ==
    new_object_access(accessHistory, TABLES, days_back, Config(sensitivity_level))

\* The rows among those of new_object_access of a user at a timestamp.
JoinedAt(joined, user, ts) ==
    {p \in joined :
        /\ p[1].USER_NAME = user
        /\ DATE(p[1].QUERY_START_TIME) = DATE(ts)
        /\ HOUR(p[1].QUERY_START_TIME) = HOUR(ts)}

\* C15: New Object Access is additive. Every row of new_object_access has
\* its New Object Access row whether or not its bucket has a row of its own,
\* and every bucket whose ANOMALY_TYPE is not Normal has its row whether or
\* not accesses of the bucket are in new_object_access.
C15_NewObjectAccessAdditive ==
    Analysed =>
        LET stats     == user_access_stats(accessHistory, days_back)
            baselines == user_baseline(stats)
            joined    == Joined
        IN  \A s \in stats :
                LET b  == CHOOSE x \in baselines : x.USER_NAME = s.USER_NAME
                    ts == s.ACCESS_DATE * 24 + s.ACCESS_HOUR
                IN  /\ Cardinality(NewObjectRowsAt(df, s.USER_NAME, ts))
                           = Cardinality(JoinedAt(joined, s.USER_NAME, ts))
                    /\ BucketRowCount(s)
                           = IF ANOMALY_TYPE(s, b, Multiplier) = "Normal" THEN 0 ELSE 1

\* C15 witness: a bucket with a row of its own and a New Object Access row.
C15_Witness ==
    /\ Analysed
    /\ \E s \in user_access_stats(accessHistory, days_back) :
          /\ ~UnusualHours(s)
          /\ BucketRowCount(s) = 1
          /\ Cardinality(NewObjectRowsAt(df, s.USER_NAME,
                                         s.ACCESS_DATE * 24 + s.ACCESS_HOUR)) >= 1

\* The three sensitivity profiles.
Profiles == {"low", "medium", "high"}

\* Bucket s has an Unusual Hours row among the rows of a bag.
HasUnusualHoursRow(bag, s) ==
    \E r \in BagToSet(bag) :
        /\ r.ANOMALY_TYPE = "Unusual Hours"
        /\ r.USER_NAME = s.USER_NAME
        /\ r.ACCESS_DATE = s.ACCESS_DATE
        /\ r.ACCESS_HOUR = s.ACCESS_HOUR

\* C16: a bucket is given Unusual Hours exactly when its hour of the day is
\* before 6 or after 22, in the rows returned and in the rows the query has
\* for the same history under each of low, medium and high.
C16_UnusualHoursFixed ==
    Analysed =>
        \A s \in user_access_stats(accessHistory, days_back) :
            LET unusual == s.ACCESS_HOUR \in (0..5) \cup {23}
            IN  /\ RowsOfKind(s, "Unusual Hours") = (IF unusual THEN 1 ELSE 0)
                /\ \A level \in Profiles :
                       HasUnusualHoursRow(AnomalyQuery(accessHistory, TABLES,
                                                       days_back, level), s)
                           <=> unusual

\* C16 witness: a bucket of 23:00 with an Unusual Hours row and a bucket of
\* 22:00 without one.
C16_Witness ==
    /\ Analysed
    /\ \E s, x \in user_access_stats(accessHistory, days_back) :
          /\ s.ACCESS_HOUR = 23 /\ RowsOfKind(s, "Unusual Hours") = 1
          /\ x.ACCESS_HOUR = 22 /\ RowsOfKind(x, "Unusual Hours") = 0

\* The rows of df are those the query has for the history under a profile.
ReturnedAsFor(level) ==
    df \in ORDER_BY(AnomalyQuery(accessHistory, TABLES, days_back, level))

\* C17: for a sensitivity token that is none of low, medium, high the
\* parameters are those of medium (4 hours, multiplier 5, 30 days) and the
\* analysis completes with the rows, the report and the high risk users it
\* has for medium.
C17_UnknownTokenIsMedium ==
    (Analysed /\ sensitivity_level \notin Profiles)
        => /\ Config(sensitivity_level)
                  = [hour_threshold |-> 4, volume_multiplier |-> 5, new_object_days |-> 30]
           /\ ReturnedAsFor("medium")
           /\ report = (IF df = <<>> THEN NoAnomaliesReport ELSE AnomalyReport)
           /\ df # <<>> => high_risk_users = HighRiskUsers(df)

\* C17 witness: an analysis with a token that is none of the three returned
\* the rows of medium, which are neither those of low nor those of high.
C17_Witness ==
    /\ Analysed /\ sensitivity_level \notin Profiles
    /\ df # <<>>
    /\ ReturnedAsFor("medium")
    /\ ~ReturnedAsFor("low")
    /\ ~ReturnedAsFor("high")

\* C18: the rows returned, bucket rows and New Object Access rows together,
\* are in the order of their dates, latest first, and rows of one date in
\* the order of their users.
C18_OrderedByDateThenUser ==
    \A i, j \in DOMAIN df :
        i < j => \/ df[i].ACCESS_DATE > df[j].ACCESS_DATE
                 \/ /\ df[i].ACCESS_DATE = df[j].ACCESS_DATE
                    /\ (df[i].USER_NAME = "bob" => df[j].USER_NAME = "bob")

\* C18 witness: rows of two dates, the later date with a bucket row of alice
\* and a New Object Access row of bob.
C18_Witness ==
    /\ Analysed
    /\ \E i, j, k \in DOMAIN df :
          /\ i < j /\ j < k
          /\ df[i].ACCESS_DATE = df[j].ACCESS_DATE
          /\ df[i].USER_NAME = "alice" /\ df[i].ANOMALY_TYPE \in BucketKinds
          /\ df[j].USER_NAME = "bob" /\ df[j].ANOMALY_TYPE = "New Object Access"
          /\ df[k].ACCESS_DATE < df[j].ACCESS_DATE

\* The rows of df of a user, and the kinds among them.
RowsOfUser(u) == {i \in DOMAIN df : df[i].USER_NAME = u}

KindsOfUser(u) == {df[i].ANOMALY_TYPE : i \in RowsOfUser(u)}

\* C19: a user is among the high risk users exactly when the rows returned
\* have at least 3 distinct kinds of anomaly for that user, however many rows
\* there are of each kind.
C19_HighRiskIffThreeKinds ==
    Analysed =>
        \A u \in Users :
            (\E i \in DOMAIN high_risk_users : high_risk_users[i] = u)
                <=> Cardinality(KindsOfUser(u)) >= 3

\* C19 witness: alice is high risk with rows of exactly 3 kinds, and bob is
\* not.
C19_Witness ==
    /\ Analysed
    /\ high_risk_users = <<"alice">>
    /\ Cardinality(KindsOfUser("alice")) = 3
    /\ Cardinality(RowsOfUser("bob")) < 3

\* The events among `events` of a user in the hour of timestamp ts.
EventsAt(events, user, ts) ==
    {r \in events :
        /\ r.USER_NAME = user
        /\ DATE(r.QUERY_START_TIME) = DATE(ts)
        /\ HOUR(r.QUERY_START_TIME) = HOUR(ts)}

\* The buckets among `stats` of a user in the hour of timestamp ts.
BucketsAt(stats, user, ts) ==
    {s \in stats : /\ s.USER_NAME = user
                   /\ s.ACCESS_DATE = DATE(ts)
                   /\ s.ACCESS_HOUR = HOUR(ts)}

\* The hours looked at: those of the access history, in the window or not,
\* and the current hour, for each user.
HoursLookedAt ==
    Users \X ({r.QUERY_START_TIME : r \in accessHistory} \cup {CURRENT_TIMESTAMP})

\* C20: for a user and an hour with access events in the window there is
\* exactly one bucket, its query count the number of distinct query
\* identifiers of those events; for a user and an hour with none there is no
\* bucket.
C20_OneBucketPerHourWithEvents ==
    Analysed =>
        LET window == EventsInWindow
            stats  == user_access_stats(accessHistory, days_back)
        IN  \A h \in HoursLookedAt :
                LET events  == EventsAt(window, h[1], h[2])
                    buckets == BucketsAt(stats, h[1], h[2])
                IN  IF events = {} THEN buckets = {}
                    ELSE /\ Cardinality(buckets) = 1
                         /\ \A s \in buckets :
                                s.QUERY_COUNT = Cardinality({r.QUERY_ID : r \in events})

\* C20 witness: a bucket of 2 queries made of more than 2 access events, and
\* an access event before the window, which has no bucket.
C20_Witness ==
    /\ Analysed
    /\ LET window == EventsInWindow
           stats  == user_access_stats(accessHistory, days_back)
       IN  /\ \E s \in stats :
                 /\ s.QUERY_COUNT = 2
                 /\ Cardinality(EventsAt(window, s.USER_NAME,
                                         s.ACCESS_DATE * 24 + s.ACCESS_HOUR)) > 2
           /\ \E r \in accessHistory \ window :
                 BucketsAt(stats, r.USER_NAME, r.QUERY_START_TIME) = {}

\* The baselines of the invocation that has run.
Baselines == user_baseline(user_access_stats(accessHistory, days_back))

\* N * N times the sum of the squares of the deviations of the query counts
\* of a user's buckets from their mean.
RECURSIVE ScaledSquares(_, _, _)
ScaledSquares(buckets, n, sum) ==
    IF buckets = {} THEN 0
    ELSE LET s == CHOOSE x \in buckets : TRUE
         IN  (n * s.QUERY_COUNT - sum) * (n * s.QUERY_COUNT - sum)
                 + ScaledSquares(buckets \ {s}, n, sum)

C22_OneBaselinePerUser ==
    Analysed =>
        LET stats     == user_access_stats(accessHistory, days_back)
            baselines == user_baseline(stats)
        IN  /\ \A s \in stats :
                   LET mine == {b \in baselines : b.USER_NAME = s.USER_NAME}
                   IN  /\ Cardinality(mine) = 1
                       /\ \A b \in mine :
                              /\ b.N = Cardinality({x \in stats : x.USER_NAME = s.USER_NAME})
                              /\ ANOMALY_TYPE(s, b, Multiplier) # "Normal"
                                     => BucketRowCount(s) = 1
            /\ \A b \in baselines : \E s \in stats : s.USER_NAME = b.USER_NAME

\* C22 witness: bob's only bucket and one of alice's several buckets each
\* have a row.
C22_Witness ==
    /\ Analysed
    /\ LET stats == user_access_stats(accessHistory, days_back)
       IN  \E s, x \in stats :
              /\ s.USER_NAME = "bob" /\ BucketRowCount(s) = 1
              /\ Cardinality({y \in stats : y.USER_NAME = "bob"}) = 1
              /\ x.USER_NAME = "alice" /\ BucketRowCount(x) = 1
              /\ Cardinality({y \in stats : y.USER_NAME = "alice"}) > 1

\* The invocations that are sending a statement on connection c.
Executing(c) == {t \in Invocations : ipc[t] = "execute" /\ c \in conn[t]}

\* The invocations that found self.connection absent and created one.
Creators == {opened[c].by : c \in DOMAIN opened} \ {0}

\* C23: when tool invocations overlap, the access to the connection is
\* serialized: no two invocations are sending a statement on the same
\* connection at the same time, and of the invocations that found the
\* connection absent at most one has created a connection.
C23_SerializedAccess ==
    /\ \A c \in DOMAIN opened : Cardinality(Executing(c)) <= 1
    /\ Cardinality(Creators) <= 1

\* C24: when snowflake_conn.execute_query raises in a handler, the handler
\* makes no further call (at most the failing statement was sent), returns
\* its error text with the exception's text in it, and returns no result
\* rows, anomaly rows or report.
C24_FailureEndsInvocation ==
    /\ [](/\ raised["execute_account_usage_query"] # NoError =>
               /\ pc = "done"
               /\ result = QueryErrorMessage
               /\ errorText["execute_account_usage_query"]
                      = raised["execute_account_usage_query"]
          /\ raised["detect_unusual_access_patterns"] # NoError =>
               /\ dpc = "done"
               /\ report = DetectErrorReport
               /\ errorText["detect_unusual_access_patterns"]
                      = raised["detect_unusual_access_patterns"]
               /\ df = <<>>
               /\ high_risk_users = <<>>)
    /\ [][\A h \in Handlers :
             (raised[h] = NoError /\ raised'[h] # NoError) =>
                 /\ Len(calls') <= Len(calls) + 1
                 /\ SubSeq(calls', 1, Len(calls)) = calls
                 /\ raised'[h] = ConnectError => calls' = calls]_vars

\* C24 witness: one handler failed in connect(), the other in the statement.
C24_Witness ==
    /\ raised["execute_account_usage_query"] = ConnectError
    /\ raised["detect_unusual_access_patterns"] = ExecuteError
    /\ Len(calls) = 1
    /\ accessHistory # {}

\* C25: in the text sent to the warehouse for an accepted query, every
\* occurrence of a denylisted keyword lies inside a comment as the warehouse
\* reads it (after a "--" that is not inside a string literal): what the
\* gate's "--.*" substitution leaves out is what the warehouse leaves out.
C25_UninspectedTextIsComment ==
    (pc = "done" /\ gateOk = "accepted" /\ calls # <<>>) =>
        \A i \in DOMAIN calls :
            \A p \in KeywordPlaces(calls[i].sql) :
                \A j \in p[2]..(p[2] + Len(p[1]) - 1) :
                    LexModes(calls[i].sql)[j] = "comment"

\* C26: every query build_query_from_description suggests is accepted by
\* is_read_only_query: passed unchanged to execute_account_usage_query it is
\* not refused.
C26_SuggestionsAccepted ==
    /\ \A i \in DOMAIN suggestions : is_read_only_query(suggestions[i])
    /\ (hpc = "passed" /\ pc = "done") => result # RefusalMessage

\* The buckets (user, date, hour) that have a row of one of the four bucket
\* kinds among the rows, and the hours of the accesses that have a New Object
\* Access row.
ReportedBuckets(rows) ==
    { <<r.USER_NAME, r.ACCESS_DATE, r.ACCESS_HOUR>> :
        r \in {x \in rows : x.ANOMALY_TYPE \in BucketKinds} }

ReportedAccesses(rows) ==
    { <<r.USER_NAME, r.ACCESS_DATE, r.ACCESS_HOUR>> :
        r \in {x \in rows : x.ANOMALY_TYPE = "New Object Access"} }

\* C27: for one history, one set of tables, one current time and one
\* days_back, what is reported under low is reported under medium, and what
\* is reported under medium is reported under high.
C27_SensitivityMonotone ==
    Analysed =>
        LET low    == BagToSet(AnomalyQuery(accessHistory, TABLES, days_back, "low"))
            medium == BagToSet(AnomalyQuery(accessHistory, TABLES, days_back, "medium"))
            high   == BagToSet(AnomalyQuery(accessHistory, TABLES, days_back, "high"))
        IN  /\ ReportedBuckets(low) \subseteq ReportedBuckets(medium)
            /\ ReportedBuckets(medium) \subseteq ReportedBuckets(high)
            /\ ReportedAccesses(low) \subseteq ReportedAccesses(medium)
            /\ ReportedAccesses(medium) \subseteq ReportedAccesses(high)

\* C28: a user with exactly one bucket in the window has no High Data Volume
\* row, and the bucket fails the data volume test with its user's baseline
\* under each of low, medium and high: its rows are the baseline's average
\* and every multiplier is at least 3.
C28_SingleBucketNeverHighDataVolume ==
    Analysed =>
        LET stats     == user_access_stats(accessHistory, days_back)
            baselines == user_baseline(stats)
        IN  \A s \in stats :
                Cardinality({x \in stats : x.USER_NAME = s.USER_NAME}) = 1 =>
                    /\ s.TOTAL_ROWS >= 0
                    /\ \A level \in Profiles : Config(level).volume_multiplier >= 3
                    /\ \A b \in baselines : \A level \in Profiles :
                           b.USER_NAME = s.USER_NAME =>
                               /\ b.N * s.TOTAL_ROWS = b.SUM_ROWS
                               /\ ~HighDataVolume(s, b, Config(level).volume_multiplier)
                    /\ \A i \in DOMAIN df :
                           df[i].USER_NAME = s.USER_NAME
                               => df[i].ANOMALY_TYPE # "High Data Volume"

\* C28 witness: a user's only bucket, with rows, outside the unusual hours
\* and with one database, was analysed under high sensitivity and has no row;
\* and another user's only bucket has no rows.
C28_Witness ==
    /\ Analysed /\ sensitivity_level = "high"
    /\ LET stats == user_access_stats(accessHistory, days_back)
       IN  \E s, x \in stats :
              /\ Cardinality({y \in stats : y.USER_NAME = s.USER_NAME}) = 1
              /\ s.TOTAL_ROWS > 0
              /\ ~UnusualHours(s)
              /\ BucketRowCount(s) = 0
              /\ x.USER_NAME # s.USER_NAME
              /\ Cardinality({y \in stats : y.USER_NAME = x.USER_NAME}) = 1
              /\ x.TOTAL_ROWS = 0
              /\ ~UnusualHours(x)

\* The connections the object has created that are open.
OpenConnections == {c \in DOMAIN opened : opened[c].open}

\* C29: after any sequence of calls of connect, execute_query,
\* test_connection, close and set_account_parameters, made one after another,
\* at most one connection created by the object is open, and it is the cached
\* one; a connection is created only when none is cached, and the reference
\* to a cached connection is dropped only once the connection is closed.
C29_AtMostOneOpenConnection ==
    /\ [](/\ Cardinality(OpenConnections) <= 1
          /\ OpenConnections \subseteq connectionObject)
    /\ [][Len(opened') > Len(opened) =>
             /\ connectionObject = {}
             /\ Len(opened') = Len(opened) + 1
             /\ connectionObject' \subseteq {Len(opened')}]_vars
    /\ [][\A c \in connectionObject :
             c \notin connectionObject' => ~opened'[c].open]_vars

\* C29 witness: the object has created MaxConnections connections, the last
\* of them is cached and open and the others are closed.
C29_Witness ==
    /\ Len(opened) = MaxConnections
    /\ connectionObject = {MaxConnections}
    /\ OpenConnections = {MaxConnections}
    /\ last.op = "execute_query"

\* The account a connection is opened for once set_account_parameters has
\* set `account`: that account, or the environment's when it is empty.
AccountInForce ==
    IF dynamic.account = "" THEN environ.SNOWFLAKE_ACCOUNT ELSE dynamic.account

=============================================================================
